---- MODULE Spec2Model ----
(***************************************************************************)
(* A model of the BEiT blur-detection data pipeline of src/beit/dataset.py: *)
(* the dataset classes and their seeded train/validation split, _fetch,    *)
(* the augmentation chain of the training __getitem__, the collation       *)
(* function and the pad step of resize.                                    *)
(*                                                                         *)
(* A path is a triple <<folder, stem, extension>>.  A tensor is a record   *)
(* [h, w, px, ops]: px is the h x w grid of values (px[i][j], 1-based) and *)
(* ops lists the value transforms of torch/torchvision that were applied   *)
(* to the grid and that are carried symbolically.                          *)
(***************************************************************************)
EXTENDS Integers, Sequences, FiniteSets, TLC

VARIABLES
    image_dir,          \* the image/ folder in iterdir() order: a sequence of <<stem, ext>>
    gt_dir,             \* the stems s for which gt/s.png exists
    image_size,         \* <<H, W>> of every image file (and of its label file)
    label_file,         \* the pixel grid stored in every label file
    TRAIN_DATA_RATIO,   \* settings.TRAIN_DATA_RATIO as <<numerator, denominator>>
    CROP_SIZE,          \* settings.CROP_SIZE
    MODEL_INPUT_DIM,    \* settings.MODEL_INPUT_DIM
    pyrand,             \* state of the global generator of module random
    base, train, val,   \* the dataset objects (status "none" before construction)
    built,              \* per class, how many times its constructor has run
    pc,                 \* position inside the running __getitem__ call
    cur,                \* <<kind, idx>> of the running __getitem__ call
    image, label,       \* the tensors held by the running __getitem__ call
    sample,             \* what the last __getitem__ call returned
    calls,              \* the functions the running __getitem__ call has invoked
    batch,              \* the list of samples handed to _collate_fn
    collated,           \* what _collate_fn returned
    padded,             \* per sample, the shape after the pad step of _pad_and_resize
    resized             \* per sample, the shape returned by _pad_and_resize

vars == <<image_dir, gt_dir, image_size, label_file, TRAIN_DATA_RATIO, CROP_SIZE,
          MODEL_INPUT_DIM, pyrand, base, train, val, built, pc, cur, image, label, sample, calls,
          batch, collated, padded, resized>>

fsVars    == <<image_dir, gt_dir, image_size, label_file>>
cfgVars   == <<TRAIN_DATA_RATIO, CROP_SIZE, MODEL_INPUT_DIM>>
dsVars    == <<base, train, val, built, pyrand>>
itemVars  == <<pc, cur, image, label, sample, calls>>
batchVars == <<batch, collated, padded, resized>>

-----------------------------------------------------------------------------
(* Bounds of the model *)

\* the longest directory listing
MaxFiles == 10
\* directory listings of up to this many files are taken in every order
MaxPerm == 3
\* the largest image height and width
MaxDim == 3
\* the largest settings.CROP_SIZE
MaxCrop == 2
\* the widest one-row label file whose content is arbitrary
MaxLabelLen == 3
\* the largest settings.MODEL_INPUT_DIM
MaxModelDim == 2
\* how often each dataset class is constructed
MaxBuilds == 2
\* the longest batch (settings.BATCH_SIZE)
MaxBatch == 2

-----------------------------------------------------------------------------
(* Helpers *)

Min(a, b) == IF a <= b THEN a ELSE b
Max(a, b) == IF a >= b THEN a ELSE b
Range(s) == {s[i] : i \in DOMAIN s}
Pow2(k) == IF k = 0 THEN 1 ELSE IF k = 1 THEN 2 ELSE IF k = 2 THEN 4
           ELSE IF k = 3 THEN 8 ELSE IF k = 4 THEN 16 ELSE IF k = 5 THEN 32
           ELSE IF k = 6 THEN 64 ELSE IF k = 7 THEN 128 ELSE 256

RECURSIVE Count(_, _)
\* the number of positions of s holding x
Count(s, x) == IF s = <<>> THEN 0
               ELSE (IF Head(s) = x THEN 1 ELSE 0) + Count(Tail(s), x)

\* the injective sequences over S
Perms(S) == {s \in [1..Cardinality(S) -> S] : \A i, j \in DOMAIN s : s[i] = s[j] => i = j}

-----------------------------------------------------------------------------
(* Module random: the Mersenne Twister behind random.seed and random.shuffle *)

\* the top 8 bits of the first 32-bit outputs of MT19937 after random.seed(s),
\* s = 0, 1, 2; getrandbits(k) is the top k bits of the next output
MTHigh ==
    [s \in 0..2 |->
      CASE s = 0 -> <<216, 98, 194, 227, 107, 10, 66, 247, 130, 124, 103, 235,
                      200, 212, 77, 247, 122, 91, 149, 228, 232, 55, 129, 35,
                      72, 35, 193, 24, 158, 204, 64, 252, 232, 136, 251, 180,
                      207, 154, 230, 37, 79, 25, 186, 18, 230, 217, 175, 84>>
        [] s = 1 -> <<34, 145, 216, 205, 195, 16, 65, 30, 126, 194, 115, 120,
                      166, 97, 201, 53, 24, 124, 7, 228, 213, 99, 110, 155,
                      195, 196, 0, 178, 114, 68, 184, 205, 58, 151, 241, 26,
                      230, 81, 7, 5, 6, 166, 138, 2, 240, 225, 97, 175>>
        [] s = 2 -> <<244, 220, 242, 217, 14, 23, 21, 92, 213, 43, 188, 207,
                      171, 218, 78, 64, 155, 54, 155, 9, 148, 174, 40, 255,
                      110, 163, 100, 205, 185, 220, 254, 130, 243, 95, 139, 239,
                      113, 128, 68, 230, 9, 222, 7, 93, 119, 238, 81, 232>>]

\* the generator states a process starts in (seeded from OS entropy): here the
\* states reached by seeds 1 and 2
UnseededStates == {[seed |-> s, pos |-> 0] : s \in {1, 2}}

\* whether the tabulated outputs cover the generator state st
InTable(st) == st.pos <= Len(MTHigh[st.seed])

\* random.seed(a): the generator restarts from the state that a determines
random_seed_skipped(st, a) == st
random_seed(st, a) == [seed |-> a, pos |-> 0]

\* int.bit_length
bit_length(n) == IF n = 0 THEN 0 ELSE IF n < 2 THEN 1 ELSE IF n < 4 THEN 2
                 ELSE IF n < 8 THEN 3 ELSE IF n < 16 THEN 4 ELSE IF n < 32 THEN 5
                 ELSE IF n < 64 THEN 6 ELSE IF n < 128 THEN 7 ELSE 8

\* Random.getrandbits(k), k <= 8: the value and the state after the draw
getrandbits(st, k) ==
    [val |-> IF st.pos < Len(MTHigh[st.seed])
             THEN MTHigh[st.seed][st.pos + 1] \div Pow2(8 - k)
             ELSE 0,
     st  |-> [st EXCEPT !.pos = @ + 1]]

RECURSIVE _randbelow(_, _)
\* Random._randbelow_with_getrandbits(n): draw k bits until the value is below n
_randbelow(st, n) ==
    LET d == getrandbits(st, bit_length(n))
    IN  IF d.val < n THEN d ELSE _randbelow(d.st, n)

Swap(x, i, j) == [x EXCEPT ![i] = x[j], ![j] = x[i]]

RECURSIVE shuffle_from(_, _, _)
\* the loop of random.shuffle from (1-based) position i down to 2
shuffle_from(st, x, i) ==
    IF i < 2 THEN [x |-> x, st |-> st]
    ELSE LET d == _randbelow(st, i)
         IN  shuffle_from(d.st, Swap(x, i, d.val + 1), i - 1)

\* random.shuffle(x): for i in reversed(range(1, len(x))): j = randbelow(i + 1);
\* x[i], x[j] = x[j], x[i]
shuffle(st, x) == shuffle_from(st, x, Len(x))

-----------------------------------------------------------------------------
(* The dataset classes *)

stem(path) == path[2]

image_path(f) == <<"image", f[1], f[2]>>
label_path_keeps_ext(f) == <<"gt", f[1], f[2]>>
\* label_folder / f'{filename.stem}.png'
label_path(f) == <<"gt", f[1], "png">>

NoDataset == [status |-> "none", image_paths |-> <<>>, label_paths |-> <<>>]
Raised(e) == [status |-> e, image_paths |-> <<>>, label_paths |-> <<>>]

\* BlurDetectionDataset.__init__: both lists follow the iteration order of image/
BlurDetectionDataset(dir) ==
    [status      |-> "ok",
     image_paths |-> [i \in DOMAIN dir |-> image_path(dir[i])],
     label_paths |-> [i \in DOMAIN dir |-> label_path(dir[i])]]

\* list(zip(a, b))
zip2(a, b) == [i \in 1..Min(Len(a), Len(b)) |-> <<a[i], b[i]>>]

\* Python's round() of the float n * ratio: to the nearest integer, a tie to the
\* even one.  For the ratios of Ratios the float product rounds as the exact one.
round_down(n, ratio) == (n * ratio[1]) \div ratio[2]
round(n, ratio) ==
    LET q == (n * ratio[1]) \div ratio[2]
        r == (n * ratio[1]) % ratio[2]
    IN  IF 2 * r < ratio[2] THEN q
        ELSE IF 2 * r > ratio[2] THEN q + 1
        ELSE IF q % 2 = 0 THEN q ELSE q + 1

\* seq[:k] and seq[k:]
TrainingSlice(seq, k) == SubSeq(seq, 1, k)
ValidationSliceOffByOne(seq, k) == SubSeq(seq, Max(k, 1), Len(seq))
ValidationSlice(seq, k) == SubSeq(seq, k + 1, Len(seq))

\* the shared head of the two split constructors: zip, random.seed(0),
\* random.shuffle; the generator state after it
ShuffledPaths(st, ds) == shuffle(random_seed(st, 0), zip2(ds.image_paths, ds.label_paths))

\* self.image_paths, self.label_paths = zip(*paths): raises ValueError on an
\* empty list
Unzip(paths) ==
    IF paths = <<>> THEN Raised("ValueError")
    ELSE [status      |-> "ok",
          image_paths |-> [i \in DOMAIN paths |-> paths[i][1]],
          label_paths |-> [i \in DOMAIN paths |-> paths[i][2]]]

\* TrainingBlurDetectionDataset.__init__: the dataset and the generator state
TrainingBlurDetectionDataset(st, dir, ratio) ==
    LET sh == ShuffledPaths(st, BlurDetectionDataset(dir))
        u  == Unzip(sh.x)
        k  == round(Len(sh.x), ratio)
    IN  [ds |-> IF u.status # "ok" THEN u
                ELSE [u EXCEPT !.image_paths = TrainingSlice(@, k),
                               !.label_paths = TrainingSlice(@, k)],
         st |-> sh.st]

\* ValidationBlurDetectionDataset.__init__: the dataset and the generator state
ValidationBlurDetectionDataset(st, dir, ratio) ==
    LET sh == ShuffledPaths(st, BlurDetectionDataset(dir))
        u  == Unzip(sh.x)
        k  == round(Len(sh.x), ratio)
    IN  [ds |-> IF u.status # "ok" THEN u
                ELSE [u EXCEPT !.image_paths = ValidationSlice(@, k),
                               !.label_paths = ValidationSlice(@, k)],
         st |-> sh.st]

-----------------------------------------------------------------------------
(* Tensors and _fetch *)

Tensor(h, w, px) == [h |-> h, w |-> w, px |-> px, ops |-> <<>>]
NoTensor == Tensor(0, 0, <<>>)

\* t[:, :, a:b, c:d] with Python's clamping of slice ends
Slice(t, a, b, c, d) ==
    LET r0 == Min(a, t.h)
        r1 == Max(Min(b, t.h), r0)
        c0 == Min(c, t.w)
        c1 == Max(Min(d, t.w), c0)
    IN  [t EXCEPT !.h = r1 - r0, !.w = c1 - c0,
                  !.px = [i \in 1..(r1 - r0) |-> [j \in 1..(c1 - c0) |-> t.px[r0 + i][c0 + j]]]]

\* the value 255 that the annotation format uses for the blurred class
SENTINEL == 255

\* label[label == 255] = 1
remap_nothing(v) == v
remap(v) == IF v = SENTINEL THEN 1 ELSE v

\* the decoded image: pixel (i, j) of the file, identified by its coordinates
\* (a value of the tensor is the set of file pixels it was computed from)
decode_image(size) ==
    Tensor(size[1], size[2], [i \in 1..size[1] |-> [j \in 1..size[2] |-> {<<i, j>>}]])

\* the decoded label: the palette indices of the file, 255 remapped, as uint8
decode_label(file) ==
    Tensor(Len(file), IF file = <<>> THEN 0 ELSE Len(file[1]),
           [i \in DOMAIN file |-> [j \in DOMAIN file[i] |-> remap(file[i][j])]])

\* whether Image.open(path) finds the file
Exists(path, dir, gt) ==
    IF path[1] = "image" THEN <<path[2], path[3]>> \in Range(dir)
    ELSE path[3] = "png" /\ path[2] \in gt

\* BlurDetectionDataset._fetch(idx), idx counted from 1
_fetch(ds, idx, dir, gt, size, file) ==
    IF ~Exists(ds.image_paths[idx], dir, gt) \/ ~Exists(ds.label_paths[idx], dir, gt)
    THEN [status |-> "FileNotFoundError", image |-> NoTensor, label |-> NoTensor]
    ELSE [status |-> "ok", image |-> decode_image(size), label |-> decode_label(file)]

-----------------------------------------------------------------------------
(* The augmentation functions *)

\* the values np.random.randint(0, dim - crop_size + 1) can return, or 0
crop_offsets(dim, crop_size) == IF dim > crop_size THEN 0..(dim - crop_size) ELSE {0}

\* crop(image, label) with the two offsets drawn
crop_label_at_origin(im, lb, crop_size, s_h, s_w) ==
    LET e_h == Min(s_h + crop_size, im.h)
        e_w == Min(s_w + crop_size, im.w)
    IN  [image |-> Slice(im, s_h, e_h, s_w, e_w), label |-> Slice(lb, 0, e_h - s_h, 0, e_w - s_w)]
crop(im, lb, crop_size, s_h, s_w) ==
    LET e_h == Min(s_h + crop_size, im.h)
        e_w == Min(s_w + crop_size, im.w)
    IN  [image |-> Slice(im, s_h, e_h, s_w, e_w), label |-> Slice(lb, s_h, e_h, s_w, e_w)]

\* settings.SCALE_VALUES, as <<numerator, denominator>>
SCALE_VALUES == {<<1, 2>>, <<1, 1>>, <<2, 1>>}

\* the output length of F.interpolate for an input length and a scale factor
scaled_len(n, ratio) == (n * ratio[1]) \div ratio[2]

\* the source positions (from 0) blended into output position o (from 0) by
\* bilinear interpolation with align_corners=True
bilinear_src(o, n_in, n_out) ==
    IF n_out <= 1 THEN {0}
    ELSE LET lo == (o * (n_in - 1)) \div (n_out - 1)
         IN  IF (o * (n_in - 1)) % (n_out - 1) = 0 THEN {lo} ELSE {lo, lo + 1}

\* the source position (from 0) copied to output position o (from 0) by nearest
\* interpolation at the given scale factor
nearest_src(o, n_in, ratio) == Min((o * ratio[2]) \div ratio[1], n_in - 1)

interpolate_bilinear(t, ratio) ==
    LET h == scaled_len(t.h, ratio)
        w == scaled_len(t.w, ratio)
    IN  [t EXCEPT !.h = h, !.w = w,
                  !.px = [i \in 1..h |-> [j \in 1..w |->
                            UNION {t.px[a + 1][b + 1] : a \in bilinear_src(i - 1, t.h, h),
                                                        b \in bilinear_src(j - 1, t.w, w)}]]]

interpolate_nearest(t, ratio) ==
    LET h == scaled_len(t.h, ratio)
        w == scaled_len(t.w, ratio)
    IN  [t EXCEPT !.h = h, !.w = w,
                  !.px = [i \in 1..h |-> [j \in 1..w |->
                            t.px[nearest_src(i - 1, t.h, ratio) + 1][nearest_src(j - 1, t.w, ratio) + 1]]]]

\* scale(image, label) with the ratio drawn; F.interpolate raises on an empty output
scale(im, lb, ratio) ==
    IF scaled_len(im.h, ratio) = 0 \/ scaled_len(im.w, ratio) = 0
       \/ scaled_len(lb.h, ratio) = 0 \/ scaled_len(lb.w, ratio) = 0
    THEN [status |-> "RuntimeError", image |-> im, label |-> lb]
    ELSE [status |-> "ok", image |-> interpolate_bilinear(im, ratio),
          label |-> interpolate_nearest(lb, ratio)]

\* torch.flip(t, [3])
torch_flip(t) == [t EXCEPT !.px = [i \in 1..t.h |-> [j \in 1..t.w |-> t.px[i][t.w + 1 - j]]]]

\* flip(image, label) with the outcome of np.random.rand() < 0.5 drawn
flip(im, lb, heads) ==
    IF heads THEN [image |-> torch_flip(im), label |-> torch_flip(lb)]
    ELSE [image |-> im, label |-> lb]

\* adjust_brightness(image, label) with the two factors (in percent) drawn
adjust_brightness(im, lb, brightness, contrast) ==
    [image |-> [im EXCEPT !.ops = @ \o <<<<"brightness", brightness>>, <<"contrast", contrast>>>>],
     label |-> lb]

\* rotate(image, label) with the angle drawn; the label's border is filled with 255
rotate(im, lb, angle) ==
    [image |-> [im EXCEPT !.ops = Append(@, <<"rotate", angle, 0>>)],
     label |-> [lb EXCEPT !.ops = Append(@, <<"rotate", angle, SENTINEL>>)]]

-----------------------------------------------------------------------------
(* resize and the collation function *)

\* the padding (hp, vp) that _pad_and_resize computes: w, h = image.size()[-2:]
\* binds w to the height and h to the width of a (..., H, W) tensor
padding(t) ==
    LET w == t.h
        h == t.w
        max_wh == Max(w, h)
    IN  [hp |-> (max_wh - w) \div 2, vp |-> (max_wh - h) \div 2]

\* the shape after TVF.pad(image, (hp, vp, hp, vp)): left and right grow the
\* width by hp each, top and bottom grow the height by vp each
pad_shape(t) == <<t.h + 2 * padding(t).vp, t.w + 2 * padding(t).hp>>

\* the shape after TVF.resize(image, size) for an int size: the shorter edge
\* becomes size, the longer one int(size * longer / shorter)
resize_shape(shape, size) ==
    IF shape[1] <= shape[2] THEN <<size, (size * shape[2]) \div shape[1]>>
    ELSE <<(size * shape[1]) \div shape[2], size>>

\* the shape after TVF.center_crop(image, size)
center_crop_shape(shape, size) == <<size, size>>

\* _pad_and_resize: the shape after the pad step and the shape returned
_pad_and_resize(t, size) ==
    [padded |-> pad_shape(t),
     out    |-> center_crop_shape(resize_shape(pad_shape(t), size), size)]

\* resize(images, labels): every image and every label goes through _pad_and_resize
resize(images, labels, size) ==
    [images |-> [i \in DOMAIN images |-> _pad_and_resize(images[i], size)],
     labels |-> [i \in DOMAIN labels |-> _pad_and_resize(labels[i], size)]]

\* _collate_fn(batch): images, labels, filenames = zip(*batch)
_collate_fn_reversed(b) ==
    [done      |-> TRUE,
     images    |-> [i \in DOMAIN b |-> b[Len(b) + 1 - i].image],
     labels    |-> [i \in DOMAIN b |-> b[i].label],
     filenames |-> [i \in DOMAIN b |-> b[i].filename]]
_collate_fn(b) ==
    [done      |-> TRUE,
     images    |-> [i \in DOMAIN b |-> b[i].image],
     labels    |-> [i \in DOMAIN b |-> b[i].label],
     filenames |-> [i \in DOMAIN b |-> b[i].filename]]

-----------------------------------------------------------------------------
(* Initial states *)

\* the i-th file name of the pool: 1.jpg, 1.png, 2.jpg, 2.png, ...
File(i) == <<(i + 1) \div 2, IF i % 2 = 1 THEN "jpg" ELSE "png">>

Canonical(n) == [i \in 1..n |-> File(i)]

\* the directory listings: the first n files of the pool in pool order, and
\* every subset of the first MaxPerm files in every order
Listings ==
    {Canonical(n) : n \in 0..MaxFiles}
    \cup UNION {Perms(S) : S \in SUBSET {File(i) : i \in 1..MaxPerm}}

\* the gt/ folders: every label present, or exactly one missing
GtChoices(dir) ==
    LET stems == {f[1] : f \in Range(dir)}
    IN  {stems} \cup {stems \ {s} : s \in stems}

\* the values of settings.TRAIN_DATA_RATIO
Ratios == {<<1, 2>>, <<3, 4>>, <<4, 5>>}

\* the palette indices a label file may hold
PixelValues == {0, 1, 128, 255}

\* a black-and-white label of the given size
Checkerboard(size) ==
    [i \in 1..size[1] |-> [j \in 1..size[2] |-> IF (i + j) % 2 = 0 THEN SENTINEL ELSE 0]]

NoSample == [image |-> NoTensor, label |-> NoTensor, filename |-> <<>>]
NoCall == <<"none", 0>>

InitItem ==
    /\ pc = "idle" /\ cur = NoCall /\ image = NoTensor /\ label = NoTensor
    /\ sample = NoSample /\ calls = <<>>

NoBatch == [done |-> FALSE, images |-> <<>>, labels |-> <<>>, filenames |-> <<>>]
NoShapes == [done |-> FALSE, images |-> <<>>, labels |-> <<>>]

InitBatch ==
    /\ batch = <<>> /\ collated = NoBatch /\ padded = NoShapes /\ resized = NoShapes

\* a fresh process over some directory: nothing constructed yet
InitSplit ==
    /\ image_dir \in Listings
    /\ gt_dir \in GtChoices(image_dir)
    /\ image_size = <<1, 1>>
    /\ label_file = Checkerboard(image_size)
    /\ TRAIN_DATA_RATIO \in Ratios
    /\ CROP_SIZE = 1
    /\ MODEL_INPUT_DIM = 1
    /\ pyrand \in UnseededStates
    /\ base = NoDataset /\ train = NoDataset /\ val = NoDataset
    /\ built = [k \in {"base", "train", "val"} |-> 0]
    /\ InitItem
    /\ InitBatch

-----------------------------------------------------------------------------
(* Actions: construction of the datasets *)

\* the positions at which no __getitem__ call is running (the process is
\* single-threaded: a constructor runs between calls, never inside one)
Ended == {"idle", "returned", "FileNotFoundError", "RuntimeError"}

ConstructBase ==
    /\ pc \in Ended
    /\ built["base"] < MaxBuilds
    /\ base' = BlurDetectionDataset(image_dir)
    /\ built' = [built EXCEPT !["base"] = @ + 1]
    /\ UNCHANGED <<fsVars, cfgVars, train, val, pyrand, itemVars, batchVars>>

ConstructTraining ==
    LET r == TrainingBlurDetectionDataset(pyrand, image_dir, TRAIN_DATA_RATIO)
    IN  /\ pc \in Ended
        /\ built["train"] < MaxBuilds
        /\ InTable(r.st)
        /\ train' = r.ds
        /\ pyrand' = r.st
        /\ built' = [built EXCEPT !["train"] = @ + 1]
        /\ UNCHANGED <<fsVars, cfgVars, base, val, itemVars, batchVars>>

ConstructValidation ==
    LET r == ValidationBlurDetectionDataset(pyrand, image_dir, TRAIN_DATA_RATIO)
    IN  /\ pc \in Ended
        /\ built["val"] < MaxBuilds
        /\ InTable(r.st)
        /\ val' = r.ds
        /\ pyrand' = r.st
        /\ built' = [built EXCEPT !["val"] = @ + 1]
        /\ UNCHANGED <<fsVars, cfgVars, base, train, itemVars, batchVars>>

-----------------------------------------------------------------------------
(* Actions: the steps of one __getitem__ call *)

Dataset(kind) == IF kind = "train" THEN train ELSE val

\* image, label = self._fetch(idx): the first statement of both __getitem__
Fetch(kind) ==
    /\ pc \in Ended
    /\ Dataset(kind).status = "ok"
    /\ \E idx \in DOMAIN Dataset(kind).image_paths :
          LET f == _fetch(Dataset(kind), idx, image_dir, gt_dir, image_size, label_file)
          IN  /\ cur' = <<kind, idx>>
              /\ pc' = IF f.status = "ok" THEN "fetched" ELSE f.status
              /\ image' = f.image
              /\ label' = f.label
    /\ calls' = <<"_fetch">>
    /\ sample' = NoSample
    /\ UNCHANGED <<fsVars, cfgVars, dsVars, batchVars>>

FetchTraining == Fetch("train")
FetchValidation == Fetch("val")

\* image, label = crop(image, label)
Crop ==
    /\ pc = "fetched" /\ cur[1] = "train"
    /\ \E s_h \in crop_offsets(image.h, CROP_SIZE), s_w \in crop_offsets(image.w, CROP_SIZE) :
          LET r == crop(image, label, CROP_SIZE, s_h, s_w)
          IN  image' = r.image /\ label' = r.label
    /\ pc' = "cropped"
    /\ calls' = Append(calls, "crop")
    /\ UNCHANGED <<fsVars, cfgVars, dsVars, batchVars, cur, sample>>

\* image, label = scale(image, label)
Scale ==
    /\ pc = "cropped"
    /\ \E ratio \in SCALE_VALUES :
          LET r == scale(image, label, ratio)
          IN  /\ image' = r.image /\ label' = r.label
              /\ pc' = IF r.status = "ok" THEN "scaled" ELSE r.status
    /\ calls' = Append(calls, "scale")
    /\ UNCHANGED <<fsVars, cfgVars, dsVars, batchVars, cur, sample>>

\* image, label = flip(image, label)
Flip ==
    /\ pc = "scaled"
    /\ \E heads \in BOOLEAN :
          LET r == flip(image, label, heads)
          IN  image' = r.image /\ label' = r.label
    /\ pc' = "flipped"
    /\ calls' = Append(calls, "flip")
    /\ UNCHANGED <<fsVars, cfgVars, dsVars, batchVars, cur, sample>>

\* image, label = adjust_brightness(image, label): factors from [0.7, 1.2] and
\* [0.8, 1.2], here their end points
AdjustBrightness ==
    /\ pc = "flipped"
    /\ \E f \in {<<70, 80>>, <<120, 120>>} :
          LET r == adjust_brightness(image, label, f[1], f[2])
          IN  image' = r.image /\ label' = r.label
    /\ pc' = "adjusted"
    /\ calls' = Append(calls, "adjust_brightness")
    /\ UNCHANGED <<fsVars, cfgVars, dsVars, batchVars, cur, sample>>

\* image, label = rotate(image, label): an angle from [-20, 20], here its end
\* points and 0
Rotate ==
    /\ pc = "adjusted"
    /\ \E angle \in {-20, 0, 20} :
          LET r == rotate(image, label, angle)
          IN  image' = r.image /\ label' = r.label
    /\ pc' = "rotated"
    /\ calls' = Append(calls, "rotate")
    /\ UNCHANGED <<fsVars, cfgVars, dsVars, batchVars, cur, sample>>

\* the name of a path: stem and extension
name(path) == <<path[2], path[3]>>

\* return image.squeeze(dim=0), label.squeeze().to(torch.int64), self.image_paths[idx].name
ReturnBeforeRotate ==
    /\ \/ pc = "adjusted" /\ cur[1] = "train"
       \/ pc = "fetched" /\ cur[1] = "val"
    /\ sample' = [image |-> image, label |-> label,
                  filename |-> name(Dataset(cur[1]).image_paths[cur[2]])]
    /\ pc' = "returned"
    /\ UNCHANGED <<fsVars, cfgVars, dsVars, batchVars, cur, image, label, calls>>
Return ==
    /\ \/ pc = "rotated" /\ cur[1] = "train"
       \/ pc = "fetched" /\ cur[1] = "val"
    /\ sample' = [image |-> image, label |-> label,
                  filename |-> name(Dataset(cur[1]).image_paths[cur[2]])]
    /\ pc' = "returned"
    /\ UNCHANGED <<fsVars, cfgVars, dsVars, batchVars, cur, image, label, calls>>

-----------------------------------------------------------------------------
(* The splits of a directory *)

NextSplit ==
    \/ ConstructBase
    \/ ConstructTraining
    \/ ConstructValidation
    \/ FetchValidation
    \/ Return

SpecSplit == InitSplit /\ [][NextSplit]_vars

\* the (image_path, label_path) pairs of a dataset, in order
Pairs(ds) == zip2(ds.image_paths, ds.label_paths)

Abs(x) == IF x < 0 THEN -x ELSE x

\* C1: when both splits are constructed from the same directory, ratio and seed,
\* no (image_path, label_path) pair is in both, and every pair occurs in the two
\* splits together exactly as often as in the base dataset.
C1_SplitsPartitionBase ==
    (train.status = "ok" /\ val.status = "ok" /\ base.status = "ok") =>
        /\ Range(Pairs(train)) \cap Range(Pairs(val)) = {}
        /\ \A p \in Range(Pairs(base)) \cup Range(Pairs(train)) \cup Range(Pairs(val)) :
              Count(Pairs(train), p) + Count(Pairs(val), p) = Count(Pairs(base), p)

C1_Witness ==
    /\ train.status = "ok" /\ val.status = "ok" /\ base.status = "ok"
    /\ Len(train.image_paths) >= 2 /\ Len(val.image_paths) >= 2
    /\ train.image_paths # TrainingSlice(base.image_paths, Len(train.image_paths))

\* C2: constructing a split again over the same directory yields the identical
\* ordered image paths and label paths, whatever the generator of module random
\* did in between (the other constructions draw from it).
C2_ConstructionDeterministic ==
    [][/\ (train.status = "ok" /\ train'.status = "ok") => train' = train
       /\ (val.status = "ok" /\ val'.status = "ok") => val' = val]_vars

C2_Witness ==
    /\ built["train"] = 2 /\ built["val"] = 2
    /\ train.status = "ok" /\ val.status = "ok"
    /\ Len(train.image_paths) >= 3 /\ Len(val.image_paths) >= 2
    /\ pyrand.pos > 0

\* C3: in the base dataset and in both splits the two path lists have the same
\* length and the label path at i is gt/<stem of the image path at i>.png.
C3_LabelFollowsImage ==
    \A ds \in {base, train, val} :
        ds.status = "ok" =>
            /\ Len(ds.image_paths) = Len(ds.label_paths)
            /\ \A i \in DOMAIN ds.image_paths :
                  /\ ds.image_paths[i][1] = "image"
                  /\ ds.label_paths[i] = <<"gt", stem(ds.image_paths[i]), "png">>

C3_Witness ==
    /\ base.status = "ok" /\ train.status = "ok" /\ val.status = "ok"
    /\ Len(train.image_paths) >= 2 /\ Len(val.image_paths) >= 1
    /\ train.image_paths # TrainingSlice(base.image_paths, Len(train.image_paths))
    /\ \E i \in DOMAIN train.image_paths : train.image_paths[i][3] = "jpg"

\* C4: the training split holds k samples and the validation split the other
\* n - k, where k is an integer nearest to n * ratio; 10 files at ratio 0.8 give
\* 8 and 2.
C4_SplitAtRoundedRatio ==
    (train.status = "ok" /\ val.status = "ok") =>
        LET n == Len(image_dir)
            k == Len(train.image_paths)
        IN  /\ 2 * Abs(k * TRAIN_DATA_RATIO[2] - n * TRAIN_DATA_RATIO[1]) <= TRAIN_DATA_RATIO[2]
            /\ Len(val.image_paths) = n - k
            /\ (n = 10 /\ TRAIN_DATA_RATIO = <<4, 5>>) =>
                  (k = 8 /\ Len(val.image_paths) = 2)

C4_Witness ==
    /\ train.status = "ok" /\ val.status = "ok"
    /\ Len(image_dir) = 10 /\ TRAIN_DATA_RATIO = <<4, 5>>
    /\ Len(train.image_paths) = 8 /\ Len(val.image_paths) = 2

\* an image of the directory has no label file in gt/
Mismatched == \E f \in Range(image_dir) : ~Exists(label_path(f), image_dir, gt_dir)

\* C8: over a directory with an image whose label is absent no dataset object is
\* constructed, and so no later fetch is the first to fail on the missing file.
C8_MismatchFailsConstruction ==
    /\ \A ds \in {base, train, val} : ds.status = "ok" => ~Mismatched
    /\ pc # "FileNotFoundError"

-----------------------------------------------------------------------------
(* Indexed access to the two splits of a two-file directory *)

\* the label files: a checkerboard of 0 and 255 as large as the image, or one
\* row of arbitrary palette indices
LabelFiles(size) ==
    {Checkerboard(size)}
    \cup (IF size[1] = 1 /\ size[2] <= MaxLabelLen
          THEN [1..1 -> [1..size[2] -> PixelValues]] ELSE {})

\* both splits constructed, in this order, by a fresh process
InitAccess ==
    /\ image_dir = Canonical(2)
    /\ gt_dir = {1}
    /\ image_size \in (1..MaxDim) \X (1..MaxDim)
    /\ label_file \in LabelFiles(image_size)
    /\ TRAIN_DATA_RATIO = <<1, 2>>
    /\ CROP_SIZE \in 1..MaxCrop
    /\ MODEL_INPUT_DIM = 1
    /\ \E st \in UnseededStates :
          LET t == TrainingBlurDetectionDataset(st, image_dir, TRAIN_DATA_RATIO)
              v == ValidationBlurDetectionDataset(t.st, image_dir, TRAIN_DATA_RATIO)
          IN  train = t.ds /\ val = v.ds /\ pyrand = v.st
    /\ base = NoDataset
    /\ built = [k \in {"base", "train", "val"} |-> IF k = "base" THEN 0 ELSE 1]
    /\ InitItem
    /\ InitBatch

NextAccess ==
    \/ FetchTraining
    \/ FetchValidation
    \/ Crop
    \/ Scale
    \/ Flip
    \/ AdjustBrightness
    \/ Rotate
    \/ Return

SpecAccess == InitAccess /\ [][NextAccess]_vars

\* the values of a pixel grid
Values(px) == {px[i][j] : i \in DOMAIN px, j \in 1..(IF px = <<>> THEN 0 ELSE Len(px[1]))}

\* what _fetch returns to the running call
Fetched == _fetch(Dataset(cur[1]), cur[2], image_dir, gt_dir, image_size, label_file)

\* C5 as stated: whatever the label file holds, the label tensor that _fetch
\* returns holds only 0 and 1.
C5_LabelAlwaysBinary ==
    pc = "fetched" => Values(label.px) \subseteq {0, 1}

\* C5 as amended: the label tensor is the file's grid with 255 replaced by 1 and
\* every other index unchanged; it holds only 0 and 1 exactly when the file holds
\* only 0, 1 and 255, as a black-and-white (0 and 255) label does.
C5_LabelBinaryIfBlackWhite ==
    pc = "fetched" =>
        /\ label.h = Len(label_file) /\ label.w = Len(label_file[1])
        /\ \A i \in 1..label.h, j \in 1..label.w :
              label.px[i][j] = IF label_file[i][j] = 255 THEN 1 ELSE label_file[i][j]
        /\ Values(label.px) \subseteq {0, 1} <=> Values(label_file) \subseteq {0, 1, 255}
        /\ Values(label_file) \subseteq {0, 255} => Values(label.px) \subseteq {0, 1}

C5_Witness ==
    /\ pc = "fetched"
    /\ Values(label_file) = {0, 255}
    /\ Values(label.px) = {0, 1}

\* C6: crop returns an image and a label of height min(CROP_SIZE, H) and width
\* min(CROP_SIZE, W), both the same window [s_h, e_h) x [s_w, e_w) of what was
\* fetched, inside the original, with offset 0 along an axis not longer than
\* CROP_SIZE.
C6_CropWindow ==
    pc = "cropped" =>
        LET H == Fetched.image.h
            W == Fetched.image.w
        IN  /\ image.h = Min(CROP_SIZE, H) /\ image.w = Min(CROP_SIZE, W)
            /\ label.h = image.h /\ label.w = image.w
            /\ \E s_h \in 0..H, s_w \in 0..W :
                  /\ s_h + image.h <= H /\ s_w + image.w <= W
                  /\ H <= CROP_SIZE => s_h = 0
                  /\ W <= CROP_SIZE => s_w = 0
                  /\ \A i \in 1..image.h, j \in 1..image.w :
                        /\ image.px[i][j] = Fetched.image.px[s_h + i][s_w + j]
                        /\ label.px[i][j] = Fetched.label.px[s_h + i][s_w + j]

C6_Witness ==
    /\ pc = "cropped"
    /\ image_size[1] > CROP_SIZE /\ image_size[2] <= CROP_SIZE
    /\ image.h = CROP_SIZE /\ image.w = image_size[2]
    /\ image.px[1][1] = {<<2, 1>>}

\* C10: a training access that returns has run _fetch and then crop, scale, flip,
\* adjust_brightness and rotate, each once and in this order; a validation access
\* has run _fetch alone and returns its output.
C10_AugmentationOrder ==
    pc = "returned" =>
        /\ cur[1] = "train" =>
              /\ calls = <<"_fetch", "crop", "scale", "flip", "adjust_brightness", "rotate">>
              /\ Len(sample.image.ops) = 3 /\ sample.image.ops[3][1] = "rotate"
              /\ Len(sample.label.ops) = 1 /\ sample.label.ops[1][1] = "rotate"
        /\ cur[1] = "val" =>
              /\ calls = <<"_fetch">>
              /\ sample.image = Fetched.image /\ sample.label = Fetched.label

C10_Witness ==
    /\ pc = "returned" /\ cur[1] = "train"
    /\ sample.image.h = 2 * Min(CROP_SIZE, image_size[1])
    /\ sample.image.px[1][1] # {<<1, 1>>}

-----------------------------------------------------------------------------
(* A batch through _collate_fn and resize *)

\* the sample that the validation __getitem__ returns for files of a given size
Sample(size, file) ==
    [image |-> decode_image(size), label |-> decode_label(Checkerboard(size)), filename |-> file]

InitBatches ==
    /\ image_dir = <<>> /\ gt_dir = {} /\ image_size = <<1, 1>>
    /\ label_file = Checkerboard(image_size)
    /\ TRAIN_DATA_RATIO = <<1, 2>> /\ CROP_SIZE = 1
    /\ MODEL_INPUT_DIM \in 1..MaxModelDim
    /\ pyrand = random_seed(CHOOSE st \in UnseededStates : TRUE, 0)
    /\ base = NoDataset /\ train = NoDataset /\ val = NoDataset
    /\ built = [k \in {"base", "train", "val"} |-> 0]
    /\ InitItem
    /\ \E n \in 1..MaxBatch :
          \E sizes \in [1..n -> (1..MaxDim) \X (1..MaxDim)] :
             batch = [i \in 1..n |-> Sample(sizes[i], File(i))]
    /\ collated = NoBatch /\ padded = NoShapes /\ resized = NoShapes

\* the DataLoader hands the samples of one batch to collate_fn
Collate ==
    /\ ~collated.done
    /\ collated' = _collate_fn(batch)
    /\ UNCHANGED <<fsVars, cfgVars, dsVars, itemVars, batch, padded, resized>>

\* the consumer calls resize(images, labels) on the collated batch
Resize ==
    /\ collated.done /\ ~resized.done
    /\ LET r == resize(collated.images, collated.labels, MODEL_INPUT_DIM)
       IN  /\ padded' = [done |-> TRUE,
                         images |-> [i \in DOMAIN r.images |-> r.images[i].padded],
                         labels |-> [i \in DOMAIN r.labels |-> r.labels[i].padded]]
           /\ resized' = [done |-> TRUE,
                          images |-> [i \in DOMAIN r.images |-> r.images[i].out],
                          labels |-> [i \in DOMAIN r.labels |-> r.labels[i].out]]
    /\ UNCHANGED <<fsVars, cfgVars, dsVars, itemVars, batch, collated>>

NextBatches ==
    \/ Collate
    \/ Resize

SpecBatches == InitBatches /\ [][NextBatches]_vars

\* C7: the pad step of _pad_and_resize yields a square of side max(H, W) for
\* every image and label of the batch.
C7_PadMakesSquare ==
    padded.done =>
        \A i \in DOMAIN batch :
            LET side == Max(batch[i].image.h, batch[i].image.w)
            IN  padded.images[i] = <<side, side>> /\ padded.labels[i] = <<side, side>>

\* C9: _collate_fn returns three sequences as long as the batch, the i-th entry
\* of each being the image, label and filename of sample i, unchanged.
C9_CollateKeepsSamples ==
    collated.done =>
        /\ Len(collated.images) = Len(batch)
        /\ Len(collated.labels) = Len(batch)
        /\ Len(collated.filenames) = Len(batch)
        /\ \A i \in DOMAIN batch :
              /\ collated.images[i] = batch[i].image
              /\ collated.labels[i] = batch[i].label
              /\ collated.filenames[i] = batch[i].filename

C9_Witness ==
    /\ collated.done
    /\ Len(batch) = 2
    /\ batch[1].image.h # batch[2].image.h
    /\ batch[1].image.w # batch[2].image.w

====
